---- MODULE Spec2Model ----
(***************************************************************************)
(* Model of the wgpu "hello window" program (src/src/lib.rs): the State    *)
(* object (surface, config, size, exiting) and the closure that run()      *)
(* hands to the winit event loop.  State's methods are operators on a      *)
(* State record that return the new record together with the calls they    *)
(* made on the collaborators (surface, device, queue, event loop target);  *)
(* every action is one whole step of run(): the start-up up to             *)
(* State::new, the handling of one event, or the return of the loop.       *)
(***************************************************************************)
EXTENDS Integers, Sequences, FiniteSets, TLC

\* Largest window dimension the windowing system reports (dimensions are u32;
\* the code only compares them with 0 and copies them).
MaxDim == 2
\* Longest list of supported formats the surface reports.
MaxFormats == 2
\* Most events of the current loop iteration that are still dispatched after
\* event_loop_window_target.exit() was called.
MaxBatch == 2

Dim == 0..MaxDim

PhysicalSize(w, h) == [width |-> w, height |-> h]

Sizes == {PhysicalSize(w, h) : w \in Dim, h \in Dim}

\* wgpu::TextureFormat values the surface may report, and is_srgb on them.
TextureFormat == {"Bgra8UnormSrgb", "Rgba8UnormSrgb", "Bgra8Unorm"}

is_srgb(f) == f \in {"Bgra8UnormSrgb", "Rgba8UnormSrgb"}

\* Non-empty lists of formats, as get_capabilities reports them for an
\* adapter that was requested as compatible with the surface.
FormatLists == UNION {[1..n -> TextureFormat] : n \in 1..MaxFormats}

\* The present modes and alpha modes two platforms report.
ModeLists ==
    {[present_modes |-> <<"Fifo">>, alpha_modes |-> <<"Auto">>],
     [present_modes |-> <<"Mailbox", "Fifo">>,
      alpha_modes |-> <<"Opaque", "Auto">>]}

SurfaceCapabilities ==
    {[formats |-> f, present_modes |-> m.present_modes,
      alpha_modes |-> m.alpha_modes] : f \in FormatLists, m \in ModeLists}

SurfaceError == {"Timeout", "Outdated", "Lost", "OutOfMemory"}

\* What surface.get_current_texture() can give: a texture or a SurfaceError.
AcquireOutcome == {"Texture"} \cup SurfaceError

\* The configuration of a surface that was never configured, and the fields
\* of a State that does not exist (before State::new, or after it failed).
NoConfig ==
    [usage |-> "none", format |-> "none", width |-> 0, height |-> 0,
     present_mode |-> "none", alpha_mode |-> "none"]

NoState ==
    [surface |-> NoConfig, config |-> NoConfig, size |-> PhysicalSize(0, 0),
     exiting |-> FALSE]

\* One call made while a step ran: the function of lib.rs that made it, the
\* operation called, and the configuration or size passed (NoArg if none).
NoArg == [none |-> TRUE]

Call(fn, op, arg) == [fn |-> fn, op |-> op, arg |-> arg]

Ops(calls) == [i \in 1..Len(calls) |-> calls[i].op]

Count(calls, op) == Cardinality({i \in 1..Len(calls) : calls[i].op = op})

CountBy(calls, fn, op) ==
    Cardinality({i \in 1..Len(calls) : calls[i].op = op /\ calls[i].fn = fn})

(***************************************************************************)
(* State's methods.                                                        *)
(***************************************************************************)


\* The format selection taking the last sRGB format of the list.
select_format_last_srgb(formats) ==
    LET srgb == {i \in 1..Len(formats) : is_srgb(formats[i])}
    IN  IF srgb # {}
        THEN formats[CHOOSE i \in srgb : \A j \in srgb : i >= j]
        ELSE formats[1]

\* lib.rs 74-79: the first sRGB format of the list, else formats[0].
select_format(formats) ==
    LET srgb == {i \in 1..Len(formats) : is_srgb(formats[i])}
    IN  IF srgb # {}
        THEN formats[CHOOSE i \in srgb : \A j \in srgb : i <= j]
        ELSE formats[1]


\* The SurfaceConfiguration with size.height as width and size.width as height.
new_config_swapped(size, caps) ==
    [usage |-> "RENDER_ATTACHMENT",
     format |-> select_format(caps.formats),
     width |-> size.height,
     height |-> size.width,
     present_mode |-> caps.present_modes[1],
     alpha_mode |-> caps.alpha_modes[1]]

\* lib.rs 81-89: the SurfaceConfiguration State::new builds.
new_config(size, caps) ==
    [usage |-> "RENDER_ATTACHMENT",
     format |-> select_format(caps.formats),
     width |-> size.width,
     height |-> size.height,
     present_mode |-> caps.present_modes[1],
     alpha_mode |-> caps.alpha_modes[1]]


\* State::new asking for an adapter a second time when none was found, before
\* it gives up.
new_retries_adapter(in) ==
    LET c0 == << Call("new", "window.inner_size", in.size),
                 Call("new", "Instance::new", NoArg),
                 Call("new", "instance.create_surface", NoArg) >>
        c1 == Append(c0, Call("new", "instance.request_adapter", NoArg))
        c2 == Append(c1, Call("new", "adapter.request_device", NoArg))
        config == new_config(in.size, in.caps)
        c3 == c2 \o << Call("new", "surface.get_capabilities", in.caps),
                       Call("new", "surface.configure", config) >>
    IN  IF ~in.surface_ok
        THEN [result |-> "CreateSurfaceError", self |-> NoState, calls |-> c0]
        ELSE IF ~in.adapter_found
        THEN [result |-> "No adapter found for that surface",
              self |-> NoState,
              calls |-> Append(c1, Call("new", "instance.request_adapter", NoArg))]
        ELSE IF ~in.device_ok
        THEN [result |-> "RequestDeviceError", self |-> NoState, calls |-> c2]
        ELSE [result |-> "Ok",
              self |-> [surface |-> config, config |-> config,
                        size |-> in.size, exiting |-> FALSE],
              calls |-> c3]

\* lib.rs 24-101: State::new.  in.size is what window.inner_size() returns,
\* in.surface_ok, in.adapter_found and in.device_ok are the outcomes of
\* create_surface, request_adapter and request_device, in.caps is what
\* get_capabilities returns.
new(in) ==
    LET c0 == << Call("new", "window.inner_size", in.size),
                 Call("new", "Instance::new", NoArg),
                 Call("new", "instance.create_surface", NoArg) >>
        c1 == Append(c0, Call("new", "instance.request_adapter", NoArg))
        c2 == Append(c1, Call("new", "adapter.request_device", NoArg))
        config == new_config(in.size, in.caps)
        c3 == c2 \o << Call("new", "surface.get_capabilities", in.caps),
                       Call("new", "surface.configure", config) >>
    IN  IF ~in.surface_ok
        THEN [result |-> "CreateSurfaceError", self |-> NoState, calls |-> c0]
        ELSE IF ~in.adapter_found
        THEN [result |-> "No adapter found for that surface",
              self |-> NoState, calls |-> c1]
        ELSE IF ~in.device_ok
        THEN [result |-> "RequestDeviceError", self |-> NoState, calls |-> c2]
        ELSE [result |-> "Ok",
              self |-> [surface |-> config, config |-> config,
                        size |-> in.size, exiting |-> FALSE],
              calls |-> c3]


\* State::resize building a fresh configuration of the new size, with the
\* default present mode and alpha mode, instead of updating the stored one.
resize_rebuilds_config(self, new_size) ==
    IF new_size.width > 0 /\ new_size.height > 0
    THEN LET config == [usage |-> "RENDER_ATTACHMENT",
                        format |-> self.config.format,
                        width |-> new_size.width,
                        height |-> new_size.height,
                        present_mode |-> "Fifo",
                        alpha_mode |-> "Auto"]
         IN  [self |-> [self EXCEPT !.size = new_size,
                                    !.config = config,
                                    !.surface = config],
              calls |-> << Call("resize", "surface.configure", config) >>]
    ELSE [self |-> self, calls |-> << >>]

\* State::resize with the assignments to config.width and config.height
\* left out.
resize_stale_config(self, new_size) ==
    IF new_size.width > 0 /\ new_size.height > 0
    THEN [self |-> [self EXCEPT !.size = new_size, !.surface = self.config],
          calls |-> << Call("resize", "surface.configure", self.config) >>]
    ELSE [self |-> self, calls |-> << >>]

\* State::resize with the surface.configure call left out.
resize_no_configure(self, new_size) ==
    IF new_size.width > 0 /\ new_size.height > 0
    THEN [self |-> [self EXCEPT !.size = new_size,
                                !.config.width = new_size.width,
                                !.config.height = new_size.height],
          calls |-> << >>]
    ELSE [self |-> self, calls |-> << >>]

\* State::resize with || in place of && in its condition.
resize_either_positive(self, new_size) ==
    IF new_size.width > 0 \/ new_size.height > 0
    THEN LET config == [self.config EXCEPT !.width = new_size.width,
                                           !.height = new_size.height]
         IN  [self |-> [self EXCEPT !.size = new_size,
                                    !.config = config,
                                    !.surface = config],
              calls |-> << Call("resize", "surface.configure", config) >>]
    ELSE [self |-> self, calls |-> << >>]

\* lib.rs 107-114: State::resize.
resize(self, new_size) ==
    IF new_size.width > 0 /\ new_size.height > 0
    THEN LET config == [self.config EXCEPT !.width = new_size.width,
                                           !.height = new_size.height]
         IN  [self |-> [self EXCEPT !.size = new_size,
                                    !.config = config,
                                    !.surface = config],
              calls |-> << Call("resize", "surface.configure", config) >>]
    ELSE [self |-> self, calls |-> << >>]

\* lib.rs 116-118: State::input.
input(self, event) == FALSE

\* lib.rs 120: State::update.
update(self) == [self |-> self, calls |-> << >>]

\* What get_current_texture gave, as the argument of its recorded call.
Acquired(outcome) == [outcome |-> outcome]

\* State::render with the submission made before the texture is acquired,
\* so that it happens on a failed acquisition too.
render_submits_first(self, acquired) ==
    LET early == << Call("render", "device.create_command_encoder", NoArg),
                    Call("render", "encoder.finish", NoArg),
                    Call("render", "queue.submit", NoArg),
                    Call("render", "surface.get_current_texture",
                         Acquired(acquired)) >>
    IN  IF acquired \in SurfaceError
        THEN [result |-> acquired, self |-> self, calls |-> early]
        ELSE [result |-> "Ok", self |-> self,
              calls |-> early \o << Call("render", "output.present", NoArg) >>]

\* State::render with output.present() left out.
render_no_present(self, acquired) ==
    IF acquired \in SurfaceError
    THEN [result |-> acquired, self |-> self,
          calls |-> << Call("render", "surface.get_current_texture",
                            Acquired(acquired)) >>]
    ELSE [result |-> "Ok", self |-> self,
          calls |-> << Call("render", "surface.get_current_texture",
                            Acquired(acquired)),
                       Call("render", "texture.create_view", NoArg),
                       Call("render", "device.create_command_encoder", NoArg),
                       Call("render", "encoder.begin_render_pass", NoArg),
                       Call("render", "drop(render_pass)", NoArg),
                       Call("render", "encoder.finish", NoArg),
                       Call("render", "queue.submit", NoArg) >>]

\* lib.rs 122-164: State::render.  acquired is what get_current_texture gives.
render(self, acquired) ==
    IF acquired \in SurfaceError
    THEN [result |-> acquired, self |-> self,
          calls |-> << Call("render", "surface.get_current_texture",
                            Acquired(acquired)) >>]
    ELSE [result |-> "Ok", self |-> self,
          calls |-> << Call("render", "surface.get_current_texture",
                            Acquired(acquired)),
                       Call("render", "texture.create_view", NoArg),
                       Call("render", "device.create_command_encoder", NoArg),
                       Call("render", "encoder.begin_render_pass", NoArg),
                       Call("render", "drop(render_pass)", NoArg),
                       Call("render", "encoder.finish", NoArg),
                       Call("render", "queue.submit", NoArg),
                       Call("render", "output.present", NoArg) >>]


\* State::exit with the early return guarding only the assignment: the
\* message and the signal are emitted by every call.
exit_always_signals(self) ==
    [self |-> IF self.exiting THEN self ELSE [self EXCEPT !.exiting = TRUE],
     calls |-> << Call("exit", "println", NoArg),
                  Call("exit", "event_loop_window_target.exit", NoArg) >>]

\* State::exit without the early return of lines 167-169.
exit_unguarded(self) ==
    [self |-> [self EXCEPT !.exiting = TRUE],
     calls |-> << Call("exit", "println", NoArg),
                  Call("exit", "event_loop_window_target.exit", NoArg) >>]

\* lib.rs 166-174: State::exit.
exit(self) ==
    IF self.exiting
    THEN [self |-> self, calls |-> << >>]
    ELSE [self |-> [self EXCEPT !.exiting = TRUE],
          calls |-> << Call("exit", "println", NoArg),
                       Call("exit", "event_loop_window_target.exit", NoArg) >>]

(***************************************************************************)
(* Events, and the closure run() hands to the event loop.                  *)
(***************************************************************************)

\* An event as the closure sees it: type is the Event variant and window
\* tells whether its window_id is the id of the state's window; kind is the
\* WindowEvent variant, key_state and key are the KeyEvent's state and
\* logical_key, size is the physical_size of Resized.
Event(type, window, kind, key_state, key, size) ==
    [type |-> type, window |-> window, kind |-> kind,
     key_state |-> key_state, key |-> key, size |-> size]

NoSize == PhysicalSize(0, 0)

NoEvent == Event("none", "none", "none", "none", "none", NoSize)

WindowEvent(window, kind) ==
    Event("WindowEvent", window, kind, "none", "none", NoSize)

KeyboardInput(window, key_state, key) ==
    Event("WindowEvent", window, "KeyboardInput", key_state, key, NoSize)

Resized(window, size) ==
    Event("WindowEvent", window, "Resized", "none", "none", size)

WindowIds == {"own", "other"}

ElementState == {"Pressed", "Released"}

Keys == {"Escape", "Enter"}

\* WindowEvent variants the closure has no arm for.
OtherWindowEventKinds == {"Focused", "CursorMoved"}

\* Event variants other than WindowEvent and AboutToWait.
OtherEventTypes == {"NewEvents", "DeviceEvent"}

AllWindowEvents(window) ==
    {WindowEvent(window, k) :
        k \in {"CloseRequested", "ScaleFactorChanged", "RedrawRequested"}
              \cup OtherWindowEventKinds}
    \cup {KeyboardInput(window, s, k) : s \in ElementState, k \in Keys}
    \cup {Resized(window, sz) : sz \in Sizes}

NoRender(self) == [result |-> "none", self |-> self, calls |-> << >>]


\* The Err arm without its OutOfMemory case: the error is only printed.
on_render_error_ignores_oom(self, err) ==
    LET printed == << Call("run", "eprintln", NoArg) >>
    IN  IF err = "Lost"
        THEN LET r == resize(self, self.size)
             IN  [self |-> r.self,
                  calls |-> printed
                            \o << Call("run", "resize", self.size) >>
                            \o r.calls]
        ELSE [self |-> self, calls |-> printed]

\* The Err arm with the resize made for every error but OutOfMemory.
on_render_error_resizes_always(self, err) ==
    LET printed == << Call("run", "eprintln", NoArg) >>
    IN  IF err = "OutOfMemory"
        THEN LET r == exit(self)
             IN  [self |-> r.self,
                  calls |-> printed \o << Call("run", "exit", NoArg) >> \o r.calls]
        ELSE LET r == resize(self, self.size)
             IN  [self |-> r.self,
                  calls |-> printed
                            \o << Call("run", "resize", self.size) >>
                            \o r.calls]

\* lib.rs 216-225: a render error is printed, then Lost resizes to the stored
\* size, OutOfMemory exits, and any other error does nothing more.
on_render_error(self, err) ==
    LET printed == << Call("run", "eprintln", NoArg) >>
    IN  IF err = "Lost"
        THEN LET r == resize(self, self.size)
             IN  [self |-> r.self,
                  calls |-> printed
                            \o << Call("run", "resize", self.size) >>
                            \o r.calls]
        ELSE IF err = "OutOfMemory"
        THEN LET r == exit(self)
             IN  [self |-> r.self,
                  calls |-> printed \o << Call("run", "exit", NoArg) >> \o r.calls]
        ELSE [self |-> self, calls |-> printed]


\* The RedrawRequested arm calling render a second time when the first call
\* failed, before the error is handled.
on_redraw_requested_retries(self, acquired) ==
    LET u == update(self)
        r == render(u.self, acquired)
        head == << Call("run", "println", NoArg), Call("run", "update", NoArg) >>
                \o u.calls \o << Call("run", "render", NoArg) >> \o r.calls
    IN  IF r.result = "Ok"
        THEN [self |-> r.self, calls |-> head, render |-> r]
        ELSE LET again == render(r.self, acquired)
                 e == on_render_error(again.self, again.result)
             IN  [self |-> e.self,
                  calls |-> head \o << Call("run", "render", NoArg) >>
                            \o again.calls \o e.calls,
                  render |-> again]

\* lib.rs 211-227: the RedrawRequested arm.
on_redraw_requested(self, acquired) ==
    LET u == update(self)
        r == render(u.self, acquired)
        head == << Call("run", "println", NoArg), Call("run", "update", NoArg) >>
                \o u.calls \o << Call("run", "render", NoArg) >> \o r.calls
    IN  IF r.result = "Ok"
        THEN [self |-> r.self, calls |-> head, render |-> r]
        ELSE LET e == on_render_error(r.self, r.result)
             IN  [self |-> e.self, calls |-> head \o e.calls, render |-> r]


\* The ScaleFactorChanged arm resizing to the stored size instead of the size
\* it has just asked the window for.
on_scale_factor_changed_stale(self, inner_size) ==
    LET r == resize(self, self.size)
    IN  [self |-> r.self,
         calls |-> << Call("run", "window.inner_size", inner_size),
                      Call("run", "resize", self.size) >> \o r.calls,
         render |-> NoRender(self)]

\* lib.rs 207-210: the ScaleFactorChanged arm; inner_size is what
\* state.window().inner_size() returns.
on_scale_factor_changed(self, inner_size) ==
    LET r == resize(self, inner_size)
    IN  [self |-> r.self,
         calls |-> << Call("run", "window.inner_size", inner_size),
                      Call("run", "resize", inner_size) >> \o r.calls,
         render |-> NoRender(self)]

\* The pattern of the exit arm without state: ElementState::Pressed.
is_exit_request_any_key_state(event) ==
    \/ event.kind = "CloseRequested"
    \/ /\ event.kind = "KeyboardInput"
       /\ event.key = "Escape"

\* The pattern of the exit arm without its KeyboardInput alternative.
is_exit_request_close_only(event) == event.kind = "CloseRequested"

\* lib.rs 193-203: the pattern of the arm that exits.
is_exit_request(event) ==
    \/ event.kind = "CloseRequested"
    \/ /\ event.kind = "KeyboardInput"
       /\ event.key_state = "Pressed"
       /\ event.key = "Escape"

\* lib.rs 191-230: the body run for a WindowEvent of the state's window.
on_window_event(self, event, env) ==
    IF input(self, event)
    THEN [self |-> self, calls |-> << Call("run", "input", NoArg) >>,
          render |-> NoRender(self)]
    ELSE LET offered == << Call("run", "input", NoArg) >>
         IN  IF is_exit_request(event)
             THEN LET r == exit(self)
                  IN  [self |-> r.self,
                       calls |-> offered \o << Call("run", "exit", NoArg) >>
                                 \o r.calls,
                       render |-> NoRender(self)]
             ELSE IF event.kind = "Resized"
             THEN LET r == resize(self, event.size)
                  IN  [self |-> r.self,
                       calls |-> offered
                                 \o << Call("run", "resize", event.size) >>
                                 \o r.calls,
                       render |-> NoRender(self)]
             ELSE IF event.kind = "ScaleFactorChanged"
             THEN LET r == on_scale_factor_changed(self, env.inner_size)
                  IN  [r EXCEPT !.calls = offered \o r.calls]
             ELSE IF event.kind = "RedrawRequested"
             THEN LET r == on_redraw_requested(self, env.acquired)
                  IN  [r EXCEPT !.calls = offered \o r.calls]
             ELSE [self |-> self, calls |-> offered, render |-> NoRender(self)]


\* The closure without the window_id guard of line 190.
closure_any_window(self, event, env) ==
    IF event.type = "WindowEvent"
    THEN on_window_event(self, event, env)
    ELSE [self |-> self, calls |-> << >>, render |-> NoRender(self)]

\* lib.rs 186-237: the closure.  env holds what the collaborators answer
\* while the event is handled: env.inner_size is the window's inner size,
\* env.acquired what get_current_texture gives.
closure(self, event, env) ==
    IF event.type = "WindowEvent" /\ event.window = "own"
    THEN on_window_event(self, event, env)
    ELSE [self |-> self, calls |-> << >>, render |-> NoRender(self)]

\* lib.rs 177-184: run() up to State::new.  in.evt_loop_ok and in.window_ok
\* are the outcomes of EventLoop::new and WindowBuilder::build.
run_start(in) ==
    LET c0 == << Call("run", "env_logger::init", NoArg),
                 Call("run", "EventLoop::new", NoArg) >>
        c1 == c0 \o << Call("run", "set_control_flow", NoArg),
                       Call("run", "WindowBuilder::build", NoArg) >>
        n == new(in)
    IN  IF ~in.evt_loop_ok
        THEN [result |-> "EventLoopError", self |-> NoState, calls |-> c0]
        ELSE IF ~in.window_ok
        THEN [result |-> "OsError", self |-> NoState, calls |-> c1]
        ELSE [result |-> n.result, self |-> n.self,
              calls |-> c1 \o << Call("run", "State::new", NoArg) >> \o n.calls]

RunInputs ==
    [evt_loop_ok : BOOLEAN, window_ok : BOOLEAN, size : Sizes,
     surface_ok : BOOLEAN, adapter_found : BOOLEAN, device_ok : BOOLEAN,
     caps : SurfaceCapabilities]

Envs == [inner_size : Sizes, acquired : AcquireOutcome]

(***************************************************************************)
(* The state machine.                                                      *)
(***************************************************************************)
VARIABLES
    pc,                 \* where run() is: "start", "loop", "failed", "done"
    run_result,         \* what run() returned: "none" while it runs
    state,              \* the State the closure owns
    event,              \* the event handled last
    calls,              \* the calls made by the last step
    render_ret,         \* what render returned while the last event was handled
    loop_exit,          \* event_loop_window_target.exit() was called
    pending,            \* events still dispatched before the loop returns
    exit_signals        \* number of event_loop_window_target.exit() calls

vars ==
    << pc, run_result, state, event, calls, render_ret, loop_exit, pending,
       exit_signals >>

Init ==
    /\ pc = "start"
    /\ run_result = "none"
    /\ state = NoState
    /\ event = NoEvent
    /\ calls = << >>
    /\ render_ret = NoRender(NoState)
    /\ loop_exit = FALSE
    /\ pending = 0
    /\ exit_signals = 0

\* lib.rs 177-186: run() creates the event loop and the window, awaits
\* State::new and, if all of it succeeded, starts the loop; an error is
\* returned by the ? operators.
Run ==
    /\ pc = "start"
    /\ \E in \in RunInputs :
        LET r == run_start(in)
        IN  /\ state' = r.self
            /\ calls' = r.calls
            /\ run_result' = IF r.result = "Ok" THEN "none" ELSE r.result
            /\ pc' = IF r.result = "Ok" THEN "loop" ELSE "failed"
    /\ UNCHANGED << event, render_ret, loop_exit, pending, exit_signals >>

\* lib.rs 186: the event loop calls the closure with one event.  Once
\* event_loop_window_target.exit() was called, the loop still dispatches the
\* events left in its current iteration (pending), and then returns.
Dispatch(ev, env) ==
    /\ pc = "loop"
    /\ loop_exit => pending > 0
    /\ LET r == closure(state, ev, env)
           n == Count(r.calls, "event_loop_window_target.exit")
       IN  /\ state' = r.self
           /\ calls' = r.calls
           /\ render_ret' = r.render
           /\ event' = ev
           /\ exit_signals' = exit_signals + n
           /\ loop_exit' = (loop_exit \/ n > 0)
           /\ IF loop_exit
              THEN pending' = pending - 1
              ELSE IF n > 0
              THEN pending' \in 0..MaxBatch
              ELSE pending' = 0
    /\ UNCHANGED << pc, run_result >>

\* An env for the events whose handling asks the collaborators nothing.
Quiet == [inner_size |-> NoSize, acquired |-> "Texture"]

CloseRequested == Dispatch(WindowEvent("own", "CloseRequested"), Quiet)

KeyboardInputEvent ==
    \E s \in ElementState, k \in Keys : Dispatch(KeyboardInput("own", s, k), Quiet)

ResizedEvent == \E sz \in Sizes : Dispatch(Resized("own", sz), Quiet)

ScaleFactorChanged ==
    \E sz \in Sizes :
        Dispatch(WindowEvent("own", "ScaleFactorChanged"),
                 [inner_size |-> sz, acquired |-> "Texture"])

RedrawRequested ==
    \E a \in AcquireOutcome :
        Dispatch(WindowEvent("own", "RedrawRequested"),
                 [inner_size |-> NoSize, acquired |-> a])

OtherWindowEvent ==
    \E k \in OtherWindowEventKinds : Dispatch(WindowEvent("own", k), Quiet)

ForeignWindowEvent ==
    \E ev \in AllWindowEvents("other") : Dispatch(ev, Quiet)

AboutToWait ==
    Dispatch(Event("AboutToWait", "none", "none", "none", "none", NoSize), Quiet)

OtherEvent ==
    \E t \in OtherEventTypes :
        Dispatch(Event(t, "none", "none", "none", "none", NoSize), Quiet)

\* lib.rs 237-239: evt_loop.run returns once the loop has exited, and run()
\* returns Ok(()).
LoopReturns ==
    /\ pc = "loop"
    /\ loop_exit
    /\ pending = 0
    /\ pc' = "done"
    /\ run_result' = "Ok"
    /\ UNCHANGED << state, event, calls, render_ret, loop_exit, pending,
                    exit_signals >>

Next ==
    \/ Run
    \/ CloseRequested
    \/ KeyboardInputEvent
    \/ ResizedEvent
    \/ ScaleFactorChanged
    \/ RedrawRequested
    \/ OtherWindowEvent
    \/ ForeignWindowEvent
    \/ AboutToWait
    \/ OtherEvent
    \/ LoopReturns

Spec == Init /\ [][Next]_vars

(***************************************************************************)
(* Vocabulary of the properties.                                           *)
(***************************************************************************)

\* State::new has succeeded: the State exists.
Started == pc \in {"loop", "done"}

\* The step is the handling of one event by the closure.
Handling == pc = "loop" /\ pc' = "loop"

Positive(sz) == sz.width > 0 /\ sz.height > 0

\* The last event handled was a WindowEvent of this kind for the state's window.
Handled(kind) ==
    /\ Started
    /\ event.type = "WindowEvent"
    /\ event.window = "own"
    /\ event.kind = kind

\* The sizes State::resize was called with while the last step ran.
ResizeArgs ==
    {calls[i].arg : i \in {j \in 1..Len(calls) :
                              calls[j].fn = "run" /\ calls[j].op = "resize"}}

\* The configurations applied to the surface while the last step ran.
Configured ==
    {calls[i].arg : i \in {j \in 1..Len(calls) :
                              calls[j].op = "surface.configure"}}

SameDimensions(config, sz) ==
    config.width = sz.width /\ config.height = sz.height

(***************************************************************************)
(* Properties.                                                             *)
(***************************************************************************)

\* C1: once State::new has succeeded, after any sequence of events,
\* config.width = size.width and config.height = size.height.
C1_ConfigMirrorsSize ==
    Started => SameDimensions(state.config, state.size)

\* A Resized event has changed the size from the one the window had at
\* start-up to another positive size.
C1_Witness ==
    /\ Handled("Resized")
    /\ event.size = PhysicalSize(2, 1)
    /\ state.size = PhysicalSize(2, 1)
    /\ state.config.width = 2
    /\ state.config.height = 1

\* C2: resize(w,h) with w > 0 and h > 0, from any reachable state, ends with
\* config.width = w, config.height = h and size = (w,h), and calls
\* surface.configure exactly once, with the updated config.
C2_ResizePositive ==
    /\ \A sz \in ResizeArgs :
           Positive(sz) =>
               /\ SameDimensions(state.config, sz)
               /\ state.size = sz
               /\ Count(calls, "surface.configure") = 1
               /\ Configured = {state.config}
               /\ state.surface = state.config
    /\ Started =>
           \A sz \in Sizes :
               Positive(sz) =>
                   LET r == resize(state, sz)
                   IN  /\ r.self.config =
                              [state.config EXCEPT !.width = sz.width,
                                                   !.height = sz.height]
                       /\ r.self.size = sz
                       /\ r.self.surface = r.self.config
                       /\ r.calls =
                              << Call("resize", "surface.configure",
                                      r.self.config) >>

\* resize was called with a positive size and has reconfigured the surface.
C2_Witness ==
    /\ Handled("Resized")
    /\ Positive(event.size)
    /\ event.size \in ResizeArgs
    /\ Configured = {state.config}
    /\ state.size = event.size

\* C3: resize(w,h) with w = 0 or h = 0, from any reachable state, is a no-op:
\* config, size and exiting are unchanged and surface.configure is not called.
C3_ResizeZeroNoOp ==
    [][ /\ Started =>
               \A sz \in Sizes :
                   ~Positive(sz) =>
                       /\ resize(state, sz).self = state
                       /\ resize(state, sz).calls = << >>
        /\ ( /\ Handling
             /\ event'.type = "WindowEvent"
             /\ event'.window = "own"
             /\ event'.kind \in {"Resized", "ScaleFactorChanged"}
             /\ \E sz \in ResizeArgs' : ~Positive(sz) )
           => /\ state' = state
              /\ Configured' = {}
              /\ exit_signals' = exit_signals
              /\ run_result' = run_result ]_vars

\* A Resized event with a zero dimension was handled and the earlier, valid
\* configuration is still the one in force.
C3_Witness ==
    /\ Handled("Resized")
    /\ event.size = PhysicalSize(0, 2)
    /\ ResizeArgs = {PhysicalSize(0, 2)}
    /\ Configured = {}
    /\ state.size = PhysicalSize(1, 1)
    /\ state.surface.width = 1

\* C4: every configuration applied to the surface, and the stored config, has
\* width > 0 and height > 0, whatever inner size the window reports at
\* start-up and whatever sizes later events carry.
C4_SurfaceConfigValid ==
    /\ \A config \in Configured : config.width > 0 /\ config.height > 0
    /\ Started =>
           /\ state.surface.width > 0 /\ state.surface.height > 0
           /\ state.config.width > 0 /\ state.config.height > 0

\* State::exit was called while the last step ran.
ExitCalled ==
    \E i \in 1..Len(calls) : calls[i].fn = "run" /\ calls[i].op = "exit"

\* The calls State::exit itself made while the last step ran.
CallsOfExit == {i \in 1..Len(calls) : calls[i].fn = "exit"}

\* The loop-termination signals emitted while the last step ran.
SignalsEmitted == Count(calls, "event_loop_window_target.exit")

\* C5: exit is idempotent: over any sequence of events the loop-termination
\* signal is emitted exactly once, at the first exit call; a later exit call
\* changes no state and emits nothing, and exiting is still true after it.
C5_ExitIdempotent ==
    [][ /\ exit_signals' <= 1
        /\ Started' => (state'.exiting <=> exit_signals' = 1)
        /\ (Handling /\ ExitCalled') =>
               IF state.exiting
               THEN /\ state' = state
                    /\ CallsOfExit' = {}
                    /\ SignalsEmitted' = 0
                    /\ exit_signals' = exit_signals
                    /\ loop_exit' = loop_exit
               ELSE /\ state'.exiting
                    /\ SignalsEmitted' = 1
                    /\ exit_signals' = 1 ]_vars

\* exit was called again after the signal had been emitted: the call made
\* nothing and exiting is still true.
C5_Witness ==
    /\ Handled("CloseRequested")
    /\ ExitCalled
    /\ CallsOfExit = {}
    /\ state.exiting
    /\ exit_signals = 1

\* The last event handled asks for the exit: CloseRequested or Escape pressed,
\* for the state's window.
ExitRequestHandled ==
    \/ Handled("CloseRequested")
    \/ /\ Handled("KeyboardInput")
       /\ event.key_state = "Pressed"
       /\ event.key = "Escape"

\* C6: exiting is a latch: false right after State::new, never reset, and set
\* only while a CloseRequested event, an Escape key press or a render that
\* returned OutOfMemory is handled.
C6_ExitingLatch ==
    [][ /\ (pc = "start" /\ pc' = "loop") => ~state'.exiting
        /\ state.exiting => state'.exiting
        /\ (~state.exiting /\ state'.exiting) =>
               /\ Handling
               /\ \/ ExitRequestHandled'
                  \/ /\ Handled("RedrawRequested")'
                     /\ render_ret'.result = "OutOfMemory" ]_vars

\* A render that returned OutOfMemory has set exiting.
C6_Witness ==
    /\ Handled("RedrawRequested")
    /\ render_ret.result = "OutOfMemory"
    /\ state.exiting
    /\ SignalsEmitted = 1

\* C7: once a CloseRequested or an Escape-pressed event for the state's window
\* has been handled, exiting is true and the loop-termination signal has been
\* emitted; if the state was Running, it was emitted while handling that event.
C7_ExitRequestExits ==
    [][ (Handling /\ ExitRequestHandled') =>
            /\ state'.exiting
            /\ loop_exit'
            /\ exit_signals' = 1
            /\ ~state.exiting => SignalsEmitted' = 1 ]_vars

\* An Escape key press was handled while Running and has led to Exiting.
C7_Witness ==
    /\ Handled("KeyboardInput")
    /\ event.key_state = "Pressed"
    /\ event.key = "Escape"
    /\ state.exiting
    /\ SignalsEmitted = 1
    /\ loop_exit

\* What get_current_texture gave to the render call of the last step.
RenderAcquired ==
    {render_ret.calls[i].arg.outcome :
        i \in {j \in 1..Len(render_ret.calls) :
                  render_ret.calls[j].op = "surface.get_current_texture"}}

\* Every a in cs comes before every b in cs.
Before(cs, a, b) ==
    \A i, j \in 1..Len(cs) : (cs[i].op = a /\ cs[j].op = b) => i < j

\* C8: a render whose texture acquisition succeeds returns Ok and makes exactly
\* one queue submission followed by exactly one present, in the order acquire,
\* render pass begun, render pass ended, finish, submit, present.
C8_RenderSuccess ==
    "Texture" \in RenderAcquired =>
        /\ render_ret.result = "Ok"
        /\ \A op \in {"surface.get_current_texture", "encoder.begin_render_pass",
                      "drop(render_pass)", "encoder.finish", "queue.submit",
                      "output.present"} :
               /\ Count(render_ret.calls, op) = 1
               /\ Count(calls, op) = 1
        /\ Before(render_ret.calls, "surface.get_current_texture",
                  "encoder.begin_render_pass")
        /\ Before(render_ret.calls, "encoder.begin_render_pass",
                  "drop(render_pass)")
        /\ Before(render_ret.calls, "drop(render_pass)", "encoder.finish")
        /\ Before(render_ret.calls, "encoder.finish", "queue.submit")
        /\ Before(render_ret.calls, "queue.submit", "output.present")
        /\ Before(calls, "queue.submit", "output.present")

\* A redraw whose render acquired a texture, submitted and presented.
C8_Witness ==
    /\ Handled("RedrawRequested")
    /\ RenderAcquired = {"Texture"}
    /\ render_ret.result = "Ok"
    /\ Count(calls, "queue.submit") = 1
    /\ Count(calls, "output.present") = 1

\* C9: a render whose texture acquisition fails with a SurfaceError returns
\* that error and makes no submission and no present; render itself does not
\* reconfigure the surface and does not change the State (exiting included).
C9_RenderFailure ==
    [][ \A e \in SurfaceError :
            (Handling /\ e \in RenderAcquired') =>
                /\ render_ret'.result = e
                /\ render_ret'.self = state
                /\ \A op \in {"queue.submit", "output.present",
                              "surface.configure",
                              "event_loop_window_target.exit"} :
                       Count(render_ret'.calls, op) = 0
                /\ Count(calls', "queue.submit") = 0
                /\ Count(calls', "output.present") = 0
                /\ CountBy(calls', "render", "surface.configure") = 0 ]_vars

\* A redraw whose render failed with Timeout: the error came back and nothing
\* was submitted or presented.
C9_Witness ==
    /\ Handled("RedrawRequested")
    /\ RenderAcquired = {"Timeout"}
    /\ render_ret.result = "Timeout"
    /\ Count(calls, "queue.submit") = 0
    /\ Count(calls, "output.present") = 0

\* C10: when render returns Lost during a redraw, from any reachable state,
\* the handler calls resize with the stored size, which reconfigures the
\* surface exactly once with the configuration in force; config, size and
\* exiting are unchanged and no exit is signalled.
C10_LostReconfigures ==
    [][ (Handling /\ Handled("RedrawRequested")' /\ render_ret'.result = "Lost") =>
            /\ ResizeArgs' = {state.size}
            /\ Count(calls', "surface.configure") = 1
            /\ Configured' = {state.config}
            /\ state'.config = state.config
            /\ state'.size = state.size
            /\ state'.exiting = state.exiting
            /\ exit_signals' = exit_signals ]_vars

\* C11: when render returns OutOfMemory during a redraw, the handler makes the
\* state exiting (exiting = TRUE, the loop-termination signal emitted once)
\* and neither reconfigures the surface nor changes config or size.
C11_OutOfMemoryExits ==
    [][ ( /\ Handling
          /\ Handled("RedrawRequested")'
          /\ render_ret'.result = "OutOfMemory" ) =>
            /\ state'.exiting
            /\ loop_exit'
            /\ exit_signals' = 1
            /\ ~state.exiting => SignalsEmitted' = 1
            /\ Configured' = {}
            /\ ResizeArgs' = {}
            /\ state'.config = state.config
            /\ state'.surface = state.surface
            /\ state'.size = state.size ]_vars

\* A redraw whose render returned OutOfMemory after a resize: the state is
\* exiting and the configuration of the resize is still the one in force.
C11_Witness ==
    /\ Handled("RedrawRequested")
    /\ RenderAcquired = {"OutOfMemory"}
    /\ state.exiting
    /\ exit_signals = 1
    /\ ExitCalled
    /\ Configured = {}
    /\ state.size = PhysicalSize(2, 1)

\* C12: when render returns Timeout or Outdated (every SurfaceError other than
\* Lost and OutOfMemory), the handler changes nothing: config, size and exiting
\* are unchanged, the surface is not reconfigured and no exit is signalled, so
\* the next RedrawRequested is handled as it would have been without the error.
C12_OtherErrorsIgnored ==
    [][ ( /\ Handling
          /\ Handled("RedrawRequested")'
          /\ render_ret'.result \in SurfaceError \ {"Lost", "OutOfMemory"} ) =>
            /\ state' = state
            /\ Configured' = {}
            /\ ResizeArgs' = {}
            /\ ~ExitCalled'
            /\ SignalsEmitted' = 0
            /\ exit_signals' = exit_signals
            /\ loop_exit' = loop_exit
            /\ \A a \in AcquireOutcome :
                   on_redraw_requested(state', a) = on_redraw_requested(state, a)
      ]_vars

\* A redraw whose render returned Outdated while Running: nothing was done
\* about it and the state is still Running.
C12_Witness ==
    /\ Handled("RedrawRequested")
    /\ RenderAcquired = {"Outdated"}
    /\ render_ret.result = "Outdated"
    /\ Configured = {}
    /\ ~state.exiting
    /\ Positive(state.size)

\* State::new has just succeeded and no event was handled yet: calls holds
\* the calls of run() and State::new.
JustStarted == pc = "loop" /\ event = NoEvent

\* What window.inner_size() returned while the last step ran.
InnerSizes ==
    {calls[i].arg : i \in {j \in 1..Len(calls) :
                              calls[j].op = "window.inner_size"}}

\* What surface.get_capabilities returned while the last step ran.
CapsReported ==
    {calls[i].arg : i \in {j \in 1..Len(calls) :
                              calls[j].op = "surface.get_capabilities"}}

\* The calls State::new makes on the way to the configuration, in the order
\* instance, surface, adapter, device and queue, capabilities (format).
NewSteps ==
    << "Instance::new", "instance.create_surface", "instance.request_adapter",
       "adapter.request_device", "surface.get_capabilities",
       "surface.configure" >>

\* C13: a successful State::new on a window of inner size (w,h) yields
\* config.width = w, config.height = h, size = (w,h) and exiting = FALSE, and
\* has configured the surface exactly once, after the instance, the surface,
\* the adapter, the device and queue and the format were obtained in that order.
C13_NewInitializes ==
    JustStarted =>
        /\ \E sz \in Sizes :
               /\ InnerSizes = {sz}
               /\ SameDimensions(state.config, sz)
               /\ state.size = sz
        /\ ~state.exiting
        /\ \A i \in 1..Len(NewSteps) : Count(calls, NewSteps[i]) = 1
        /\ \A i \in 1..(Len(NewSteps) - 1) :
               Before(calls, NewSteps[i], NewSteps[i + 1])
        /\ Configured = {state.config}
        /\ state.surface = state.config
        /\ state.config.usage = "RENDER_ATTACHMENT"
        /\ \A caps \in CapsReported :
               /\ state.config.present_mode = caps.present_modes[1]
               /\ state.config.alpha_mode = caps.alpha_modes[1]

\* State::new has succeeded on a window of inner size 2x1.
C13_Witness ==
    /\ JustStarted
    /\ InnerSizes = {PhysicalSize(2, 1)}
    /\ state.config.width = 2
    /\ state.config.height = 1
    /\ Count(calls, "surface.configure") = 1

\* C14: if the start-up fails (no adapter, or surface creation or device
\* request fails), the error is returned by run without any retry, the surface
\* is never configured, no State exists and no event is ever handled; the loop
\* starts only after State::new has completed successfully.
C14_InitFailureIsFatal ==
    [][ /\ pc # "failed"
        /\ (pc = "start" /\ pc' = "failed") =>
               /\ run_result' \notin {"none", "Ok"}
               /\ state' = NoState
               /\ Configured' = {}
               /\ event' = NoEvent
               /\ exit_signals' = 0
               /\ \A op \in {"EventLoop::new", "WindowBuilder::build",
                             "State::new", "instance.create_surface",
                             "instance.request_adapter",
                             "adapter.request_device"} : Count(calls', op) <= 1
               /\ run_result' = "CreateSurfaceError" =>
                      Count(calls', "instance.request_adapter") = 0
               /\ run_result' = "No adapter found for that surface" =>
                      Count(calls', "adapter.request_device") = 0
               /\ run_result' = "RequestDeviceError" =>
                      Count(calls', "surface.get_capabilities") = 0
        /\ (pc = "start" /\ pc' = "loop") =>
               /\ run_result' = "none"
               /\ state' # NoState
               /\ Len(calls') > 0
               /\ calls'[Len(calls')].op = "surface.configure"
               /\ calls'[Len(calls')].fn = "new"
        /\ event' # NoEvent => (pc # "start" /\ Started') ]_vars

\* run has returned the error of a start-up in which no adapter was found.
C14_Witness ==
    /\ pc = "failed"
    /\ run_result = "No adapter found for that surface"
    /\ Count(calls, "instance.request_adapter") = 1
    /\ state = NoState
    /\ event = NoEvent

\* C15: the format selection is total and deterministic on every non-empty
\* list of supported formats: the first sRGB format in list order when the
\* list holds one, else the first format; always a member of the list.
C15_FormatSelection ==
    JustStarted =>
        \A caps \in CapsReported :
            LET formats == caps.formats
                chosen == state.config.format
            IN  /\ Len(formats) > 0
                /\ \E i \in 1..Len(formats) :
                       /\ formats[i] = chosen
                       /\ \/ /\ is_srgb(chosen)
                             /\ \A j \in 1..(i - 1) : ~is_srgb(formats[j])
                          \/ /\ \A j \in 1..Len(formats) : ~is_srgb(formats[j])
                             /\ i = 1

\* The list held an sRGB format after a format that is not sRGB, and two
\* sRGB formats: the first sRGB one was chosen each time.
C15_Witness ==
    /\ JustStarted
    /\ \E caps \in CapsReported :
           /\ caps.formats \in {<<"Bgra8Unorm", "Rgba8UnormSrgb">>,
                                <<"Rgba8UnormSrgb", "Bgra8UnormSrgb">>}
    /\ state.config.format = "Rgba8UnormSrgb"

\* C16, as claimed: once exit has set exiting and signalled the loop, nothing
\* the closure is still called with leads to a surface reconfiguration, a
\* command-buffer submission or a present (a fortiori if no event is
\* dispatched at all).
C16_NoWorkAfterExiting ==
    [][ (state.exiting /\ Handling) =>
            /\ Count(calls', "surface.configure") = 0
            /\ Count(calls', "queue.submit") = 0
            /\ Count(calls', "output.present") = 0 ]_vars

\* C16, amended: exiting is terminal for the latch and the signal: once exit
\* has set exiting, exiting stays true, no further loop-termination signal is
\* emitted and nothing happens after the loop has returned; but the closure
\* does not test exiting, so an event the loop still dispatches before it
\* returns is handled as while Running: a Resized with a positive size
\* reconfigures the surface, a RedrawRequested that acquires a texture submits
\* and presents.
C16_ExitingKeepsHandling ==
    [][ /\ pc # "done"
        /\ (state.exiting /\ Handling) =>
               /\ state'.exiting
               /\ loop_exit'
               /\ SignalsEmitted' = 0
               /\ exit_signals' = exit_signals
               /\ (Handled("Resized")' /\ Positive(event'.size)) =>
                      /\ Configured' = {state'.config}
                      /\ state'.size = event'.size
               /\ (Handled("RedrawRequested")' /\ "Texture" \in RenderAcquired') =>
                      /\ Count(calls', "queue.submit") = 1
                      /\ Count(calls', "output.present") = 1 ]_vars

\* A Resized event was handled after exiting had become true (Resized never
\* sets it), and has reconfigured the surface.
C16_Witness ==
    /\ Handled("Resized")
    /\ state.exiting
    /\ exit_signals = 1
    /\ Configured = {state.config}
    /\ state.size = event.size

\* C17: handling one RedrawRequested event calls update exactly once and then
\* render exactly once, whatever render returns: a failed render is not
\* retried within the event, a Lost error leads to at most one reconfigure
\* attempt and an OutOfMemory error to at most one exit call.
C17_OneRenderPerRedraw ==
    Handled("RedrawRequested") =>
        /\ CountBy(calls, "run", "update") = 1
        /\ CountBy(calls, "run", "render") = 1
        /\ Before(calls, "update", "render")
        /\ Count(calls, "surface.get_current_texture") = 1
        /\ render_ret.result \in {"Ok"} \cup SurfaceError
        /\ CountBy(calls, "run", "resize") =
               (IF render_ret.result = "Lost" THEN 1 ELSE 0)
        /\ Count(calls, "surface.configure") <= 1
        /\ CountBy(calls, "run", "exit") =
               (IF render_ret.result = "OutOfMemory" THEN 1 ELSE 0)
        /\ SignalsEmitted <= 1

\* A redraw whose render returned Lost: one update, one render, one resize.
C17_Witness ==
    /\ Handled("RedrawRequested")
    /\ render_ret.result = "Lost"
    /\ CountBy(calls, "run", "update") = 1
    /\ CountBy(calls, "run", "render") = 1
    /\ CountBy(calls, "run", "resize") = 1
    /\ Count(calls, "surface.configure") = 1

\* C18: a ScaleFactorChanged event resizes to the window's current inner size:
\* afterwards config and size equal that inner size when both its dimensions
\* are positive (one reconfigure), and are unchanged (no reconfigure) when
\* either is zero.
C18_ScaleFactorResizesToInnerSize ==
    [][ (Handling /\ Handled("ScaleFactorChanged")') =>
            \E inner \in Sizes :
                /\ InnerSizes' = {inner}
                /\ Count(calls', "window.inner_size") = 1
                /\ ResizeArgs' = {inner}
                /\ CountBy(calls', "run", "resize") = 1
                /\ state'.exiting = state.exiting
                /\ IF Positive(inner)
                   THEN /\ state'.size = inner
                        /\ state'.config =
                               [state.config EXCEPT !.width = inner.width,
                                                    !.height = inner.height]
                        /\ Count(calls', "surface.configure") = 1
                        /\ Configured' = {state'.config}
                   ELSE /\ state' = state
                        /\ Configured' = {} ]_vars

\* A ScaleFactorChanged event was handled while the window's inner size was
\* 1x2, which is now the stored size.
C18_Witness ==
    /\ Handled("ScaleFactorChanged")
    /\ InnerSizes = {PhysicalSize(1, 2)}
    /\ state.size = PhysicalSize(1, 2)
    /\ state.config.width = 1
    /\ state.config.height = 2
    /\ Configured = {state.config}

\* An event outside the handled set: not a WindowEvent, a WindowEvent of
\* another window, a key release, a press of a key other than Escape, or a
\* WindowEvent kind the closure has no arm for.
Unhandled(ev) ==
    \/ ev.type # "WindowEvent"
    \/ ev.window # "own"
    \/ /\ ev.kind = "KeyboardInput"
       /\ (ev.key_state # "Pressed" \/ ev.key # "Escape")
    \/ ev.kind \notin {"CloseRequested", "KeyboardInput", "Resized",
                       "ScaleFactorChanged", "RedrawRequested"}

\* C19: events outside the handled set change nothing: config, size and
\* exiting are unchanged and there is no reconfigure, no render, no redraw
\* request and no exit signal; the input hook never consumes an event, so the
\* handled events always reach the dispatch.
C19_OtherEventsIgnored ==
    [][ Handling =>
            /\ Unhandled(event') =>
                   /\ state' = state
                   /\ Configured' = {}
                   /\ ResizeArgs' = {}
                   /\ render_ret'.result = "none"
                   /\ Count(calls', "render") = 0
                   /\ Count(calls', "surface.get_current_texture") = 0
                   /\ Count(calls', "window.request_redraw") = 0
                   /\ ~ExitCalled'
                   /\ SignalsEmitted' = 0
                   /\ exit_signals' = exit_signals
                   /\ loop_exit' = loop_exit
            /\ \A ev \in AllWindowEvents("own") : ~input(state, ev)
            /\ ~Unhandled(event') =>
                   /\ CountBy(calls', "run", "input") = 1
                   /\ ExitRequestHandled' => ExitCalled'
                   /\ Handled("Resized")' => ResizeArgs' = {event'.size}
                   /\ Handled("ScaleFactorChanged")' =>
                          CountBy(calls', "run", "resize") = 1
                   /\ Handled("RedrawRequested")' =>
                          CountBy(calls', "run", "render") = 1 ]_vars

\* A CloseRequested event of another window was handled while Running: the
\* state is still Running and nothing was called.
C19_Witness ==
    /\ Started
    /\ event.type = "WindowEvent"
    /\ event.window = "other"
    /\ event.kind = "CloseRequested"
    /\ ~state.exiting
    /\ exit_signals = 0
    /\ calls = << >>

\* The fields of a configuration negotiated by State::new.
Negotiated(config) ==
    << config.usage, config.format, config.present_mode, config.alpha_mode >>

\* C20: config.format, config.present_mode, config.alpha_mode and config.usage
\* keep the values State::new gave them through any sequence of events; only
\* config.width, config.height, size and exiting change; render and update
\* change none of them, and resize never changes exiting.
C20_NegotiatedFieldsFixed ==
    [][ Started =>
            /\ Negotiated(state'.config) = Negotiated(state.config)
            /\ Negotiated(state'.surface) = Negotiated(state.surface)
            /\ \A config \in Configured' :
                   Negotiated(config) = Negotiated(state.config)
            /\ update(state).self = state
            /\ (Handling /\ render_ret'.result # "none") =>
                   render_ret'.self = state
            /\ \A sz \in Sizes :
                   /\ resize(state, sz).self.exiting = state.exiting
                   /\ Negotiated(resize(state, sz).self.config) =
                          Negotiated(state.config)
            /\ (Handling /\ ~ExitCalled') => state'.exiting = state.exiting
      ]_vars

\* A Resized event has changed the size of a state whose surface was
\* negotiated as Bgra8Unorm, Mailbox, Opaque: those fields are as negotiated.
C20_Witness ==
    /\ Handled("Resized")
    /\ state.size = PhysicalSize(2, 1)
    /\ Configured = {state.config}
    /\ state.config.width = 2
    /\ state.config.format = "Bgra8Unorm"
    /\ state.config.present_mode = "Mailbox"
    /\ state.config.alpha_mode = "Opaque"
    /\ state.config.usage = "RENDER_ATTACHMENT"

====
